---- MODULE Spec2Model ----
(***************************************************************************)
(* Model of the range-overlap crate (src/src/lib.rs): the closed-range     *)
(* classifiers excl_classify / incl_classify, the 16-way dispatch of       *)
(* classify_any over present/absent end points, the has_overlap method and *)
(* the four convenience predicates.                                        *)
(*                                                                         *)
(* An Option<T> is modelled as a sequence: <<>> is None, <<v>> is Some(v). *)
(* T is instantiated with the integers 0..MaxVal, ordered as usual.        *)
(***************************************************************************)
EXTENDS Integers, Sequences, FiniteSets, TLC

\* Largest end point value drawn for a range.
MaxVal == 3

Val == 0..MaxVal

NoneOpt == <<>>

Some(v) == <<v>>

IsSome(o) == Len(o) = 1

Unwrap(o) == o[1]

OptionVal == {NoneOpt} \cup {Some(v) : v \in Val}

\* The six variants of enum RangeOverlap.
RangeOverlap == {"AContainsB", "AInsideB", "AEndsInB", "AStartsInB", "AEqualsB", "None"}

\* RangeOverlap::has_overlap
has_overlap(r) == IF r = "None" THEN FALSE ELSE TRUE

----------------------------------------------------------------------------
\* Closed ranges.

\* excl_classify with the start of A compared to the end of B as in the
\* inclusive classifier (sa <= eb for sa < eb).
excl_classify_touching(sa, ea, sb, eb) ==
    IF sa = sb /\ ea = eb THEN "AEqualsB"
    ELSE IF sa <= sb /\ ea >= eb THEN "AContainsB"
    ELSE IF sa < sb /\ ea > sb /\ ea <= eb THEN "AEndsInB"
    ELSE IF sa > sb /\ sa <= eb /\ ea > eb THEN "AStartsInB"
    ELSE IF sa >= eb \/ sb >= ea THEN "None"
    ELSE "AInsideB"

excl_classify(sa, ea, sb, eb) ==
    IF sa = sb /\ ea = eb THEN "AEqualsB"
    ELSE IF sa <= sb /\ ea >= eb THEN "AContainsB"
    ELSE IF sa < sb /\ ea > sb /\ ea <= eb THEN "AEndsInB"
    ELSE IF sa > sb /\ sa < eb /\ ea > eb THEN "AStartsInB"
    ELSE IF sa >= eb \/ sb >= ea THEN "None"
    ELSE "AInsideB"

\* incl_classify with its first two branches exchanged: the containment
\* test runs before the equality test.
incl_classify_reordered(sa, ea, sb, eb) ==
    IF sa <= sb /\ ea >= eb THEN "AContainsB"
    ELSE IF sa = sb /\ ea = eb THEN "AEqualsB"
    ELSE IF sa < sb /\ ea >= sb /\ ea <= eb THEN "AEndsInB"
    ELSE IF sa > sb /\ sa <= eb /\ ea > eb THEN "AStartsInB"
    ELSE IF sa >= eb \/ sb >= ea THEN "None"
    ELSE "AInsideB"

incl_classify(sa, ea, sb, eb) ==
    IF sa = sb /\ ea = eb THEN "AEqualsB"
    ELSE IF sa <= sb /\ ea >= eb THEN "AContainsB"
    ELSE IF sa < sb /\ ea >= sb /\ ea <= eb THEN "AEndsInB"
    ELSE IF sa > sb /\ sa <= eb /\ ea > eb THEN "AStartsInB"
    ELSE IF sa >= eb \/ sb >= ea THEN "None"
    ELSE "AInsideB"

----------------------------------------------------------------------------
\* The arms of the match in classify_any that compare values.  The name of
\* an arm spells the presence pattern (a_start, a_end, b_start, b_end):
\* N for None, S for Some.

\* arm_NSNS with the order comparison flipped (ea > eb for ea < eb).
arm_NSNS_flipped(ea, eb) ==
    IF ea = eb THEN "AEqualsB"
    ELSE IF ea > eb THEN "AInsideB"
    ELSE "AContainsB"

\* (None, Some(ea), None, Some(eb), _)
arm_NSNS(ea, eb) ==
    IF ea = eb THEN "AEqualsB"
    ELSE IF ea < eb THEN "AInsideB"
    ELSE "AContainsB"

\* (None, Some(ea), Some(sb), None, false)
arm_NSSN_excl(ea, sb) ==
    IF ea <= sb THEN "None" ELSE "AEndsInB"

\* arm_NSSN_incl with the comparison of the exclusive arm (ea <= sb).
arm_NSSN_incl_as_excl(ea, sb) ==
    IF ea <= sb THEN "None" ELSE "AEndsInB"

\* (None, Some(ea), Some(sb), None, true)
arm_NSSN_incl(ea, sb) ==
    IF ea < sb THEN "None" ELSE "AEndsInB"

\* arm_NSSS_excl answering AInsideB where it falls through (A and B
\* confused).
arm_NSSS_excl_inside(ea, sb, eb) ==
    IF ea <= sb THEN "None"
    ELSE IF ea > sb /\ ea < eb THEN "AEndsInB"
    ELSE "AInsideB"

\* (None, Some(ea), Some(sb), Some(eb), false)
arm_NSSS_excl(ea, sb, eb) ==
    IF ea <= sb THEN "None"
    ELSE IF ea > sb /\ ea < eb THEN "AEndsInB"
    ELSE "AContainsB"

\* arm_NSSS_incl with the two ends compared by <= (ea <= eb for ea < eb).
arm_NSSS_incl_equal_ends(ea, sb, eb) ==
    IF ea < sb THEN "None"
    ELSE IF ea >= sb /\ ea <= eb THEN "AEndsInB"
    ELSE "AContainsB"

\* (None, Some(ea), Some(sb), Some(eb), true)
arm_NSSS_incl(ea, sb, eb) ==
    IF ea < sb THEN "None"
    ELSE IF ea >= sb /\ ea < eb THEN "AEndsInB"
    ELSE "AContainsB"

\* arm_SNNS_excl with the comparison of the inclusive arm (sa > eb).
arm_SNNS_excl_as_incl(sa, eb) ==
    IF sa > eb THEN "None" ELSE "AStartsInB"

\* (Some(sa), None, None, Some(eb), false)
arm_SNNS_excl(sa, eb) ==
    IF sa >= eb THEN "None" ELSE "AStartsInB"

\* (Some(sa), None, None, Some(eb), true)
arm_SNNS_incl(sa, eb) ==
    IF sa > eb THEN "None" ELSE "AStartsInB"

\* (Some(sa), None, Some(sb), None, _)
arm_SNSN(sa, sb) ==
    IF sa = sb THEN "AEqualsB"
    ELSE IF sa < sb THEN "AContainsB"
    ELSE "AInsideB"

\* (Some(sa), None, Some(sb), Some(eb), false)
arm_SNSS_excl(sa, sb, eb) ==
    IF sa <= sb THEN "AContainsB"
    ELSE IF sa < eb THEN "AStartsInB"
    ELSE "None"

\* arm_SNSS_incl with the comparison of the exclusive arm (sa < eb).
arm_SNSS_incl_as_excl(sa, sb, eb) ==
    IF sa <= sb THEN "AContainsB"
    ELSE IF sa < eb THEN "AStartsInB"
    ELSE "None"

\* (Some(sa), None, Some(sb), Some(eb), true)
arm_SNSS_incl(sa, sb, eb) ==
    IF sa <= sb THEN "AContainsB"
    ELSE IF sa <= eb THEN "AStartsInB"
    ELSE "None"

\* arm_SSNS_excl with a strict comparison of the two ends (ea < eb).
arm_SSNS_excl_strict(sa, ea, eb) ==
    IF eb <= sa THEN "None"
    ELSE IF ea < eb THEN "AInsideB"
    ELSE "AStartsInB"

\* (Some(sa), Some(ea), None, Some(eb), false)
arm_SSNS_excl(sa, ea, eb) ==
    IF eb <= sa THEN "None"
    ELSE IF ea <= eb THEN "AInsideB"
    ELSE "AStartsInB"

\* arm_SSNS_incl with a strict comparison of the two ends (ea < eb).
arm_SSNS_incl_strict(sa, ea, eb) ==
    IF eb < sa THEN "None"
    ELSE IF ea < eb THEN "AInsideB"
    ELSE "AStartsInB"

\* (Some(sa), Some(ea), None, Some(eb), true)
arm_SSNS_incl(sa, ea, eb) ==
    IF eb < sa THEN "None"
    ELSE IF ea <= eb THEN "AInsideB"
    ELSE "AStartsInB"

\* arm_SSSN_excl with the comparison of the two starts reversed (sa <= sb).
arm_SSSN_excl_reversed(sa, ea, sb) ==
    IF sb >= ea THEN "None"
    ELSE IF sa <= sb THEN "AInsideB"
    ELSE "AEndsInB"

\* (Some(sa), Some(ea), Some(sb), None, false)
arm_SSSN_excl(sa, ea, sb) ==
    IF sb >= ea THEN "None"
    ELSE IF sa >= sb THEN "AInsideB"
    ELSE "AEndsInB"

\* (Some(sa), Some(ea), Some(sb), None, true)
arm_SSSN_incl(sa, ea, sb) ==
    IF sb > ea THEN "None"
    ELSE IF sa >= sb THEN "AInsideB"
    ELSE "AEndsInB"

\* The match of classify_any; the arms are tried in source order.
classify_any(as, ae, bs, be, incl) ==
    CASE ~IsSome(as) /\ ~IsSome(ae) /\ ~IsSome(bs) /\ ~IsSome(be) -> "AEqualsB"
      [] ~IsSome(as) /\ ~IsSome(ae) /\ ~IsSome(bs) /\ IsSome(be) -> "AContainsB"
      [] ~IsSome(as) /\ ~IsSome(ae) /\ IsSome(bs) /\ ~IsSome(be) -> "AContainsB"
      [] ~IsSome(as) /\ ~IsSome(ae) /\ IsSome(bs) /\ IsSome(be) -> "AContainsB"
      [] ~IsSome(as) /\ IsSome(ae) /\ ~IsSome(bs) /\ ~IsSome(be) -> "AInsideB"
      [] ~IsSome(as) /\ IsSome(ae) /\ ~IsSome(bs) /\ IsSome(be) ->
            arm_NSNS(Unwrap(ae), Unwrap(be))
      [] ~IsSome(as) /\ IsSome(ae) /\ IsSome(bs) /\ ~IsSome(be) /\ ~incl ->
            arm_NSSN_excl(Unwrap(ae), Unwrap(bs))
      [] ~IsSome(as) /\ IsSome(ae) /\ IsSome(bs) /\ ~IsSome(be) /\ incl ->
            arm_NSSN_incl(Unwrap(ae), Unwrap(bs))
      [] ~IsSome(as) /\ IsSome(ae) /\ IsSome(bs) /\ IsSome(be) /\ ~incl ->
            arm_NSSS_excl(Unwrap(ae), Unwrap(bs), Unwrap(be))
      [] ~IsSome(as) /\ IsSome(ae) /\ IsSome(bs) /\ IsSome(be) /\ incl ->
            arm_NSSS_incl(Unwrap(ae), Unwrap(bs), Unwrap(be))
      [] IsSome(as) /\ ~IsSome(ae) /\ ~IsSome(bs) /\ ~IsSome(be) -> "AInsideB"
      [] IsSome(as) /\ ~IsSome(ae) /\ ~IsSome(bs) /\ IsSome(be) /\ ~incl ->
            arm_SNNS_excl(Unwrap(as), Unwrap(be))
      [] IsSome(as) /\ ~IsSome(ae) /\ ~IsSome(bs) /\ IsSome(be) /\ incl ->
            arm_SNNS_incl(Unwrap(as), Unwrap(be))
      [] IsSome(as) /\ ~IsSome(ae) /\ IsSome(bs) /\ ~IsSome(be) ->
            arm_SNSN(Unwrap(as), Unwrap(bs))
      [] IsSome(as) /\ ~IsSome(ae) /\ IsSome(bs) /\ IsSome(be) /\ ~incl ->
            arm_SNSS_excl(Unwrap(as), Unwrap(bs), Unwrap(be))
      [] IsSome(as) /\ ~IsSome(ae) /\ IsSome(bs) /\ IsSome(be) /\ incl ->
            arm_SNSS_incl(Unwrap(as), Unwrap(bs), Unwrap(be))
      [] IsSome(as) /\ IsSome(ae) /\ ~IsSome(bs) /\ ~IsSome(be) -> "AInsideB"
      [] IsSome(as) /\ IsSome(ae) /\ ~IsSome(bs) /\ IsSome(be) /\ ~incl ->
            arm_SSNS_excl(Unwrap(as), Unwrap(ae), Unwrap(be))
      [] IsSome(as) /\ IsSome(ae) /\ ~IsSome(bs) /\ IsSome(be) /\ incl ->
            arm_SSNS_incl(Unwrap(as), Unwrap(ae), Unwrap(be))
      [] IsSome(as) /\ IsSome(ae) /\ IsSome(bs) /\ ~IsSome(be) /\ ~incl ->
            arm_SSSN_excl(Unwrap(as), Unwrap(ae), Unwrap(bs))
      [] IsSome(as) /\ IsSome(ae) /\ IsSome(bs) /\ ~IsSome(be) /\ incl ->
            arm_SSSN_incl(Unwrap(as), Unwrap(ae), Unwrap(bs))
      [] IsSome(as) /\ IsSome(ae) /\ IsSome(bs) /\ IsSome(be) /\ ~incl ->
            excl_classify(Unwrap(as), Unwrap(ae), Unwrap(bs), Unwrap(be))
      [] IsSome(as) /\ IsSome(ae) /\ IsSome(bs) /\ IsSome(be) /\ incl ->
            incl_classify(Unwrap(as), Unwrap(ae), Unwrap(bs), Unwrap(be))

\* The convenience predicates.
has_excl_overlap(sa, ea, sb, eb) == has_overlap(excl_classify(sa, ea, sb, eb))

has_incl_overlap(sa, ea, sb, eb) == has_overlap(incl_classify(sa, ea, sb, eb))

has_open_excl_overlap(as, ae, bs, be) == has_overlap(classify_any(as, ae, bs, be, FALSE))

has_open_incl_overlap(as, ae, bs, be) == has_overlap(classify_any(as, ae, bs, be, TRUE))

----------------------------------------------------------------------------
\* The state: the arguments of one call, the function called, and what it
\* returned.  result is the RangeOverlap returned by a classifier; overlap
\* is the Option of the bool returned by has_overlap or a convenience
\* predicate.

VARIABLES a_start, a_end, b_start, b_end, inclusive, fn, result, overlap

vars == <<a_start, a_end, b_start, b_end, inclusive, fn, result, overlap>>

args == <<a_start, a_end, b_start, b_end, inclusive>>

AllSome == IsSome(a_start) /\ IsSome(a_end) /\ IsSome(b_start) /\ IsSome(b_end)

\* The caller picks the arguments; nothing validates start <= end.
Init ==
    /\ a_start \in OptionVal
    /\ a_end \in OptionVal
    /\ b_start \in OptionVal
    /\ b_end \in OptionVal
    /\ inclusive \in BOOLEAN
    /\ fn = "none"
    /\ result = "pending"
    /\ overlap = NoneOpt

CallClassifyAny ==
    /\ fn = "none"
    /\ fn' = "classify_any"
    /\ result' = classify_any(a_start, a_end, b_start, b_end, inclusive)
    /\ UNCHANGED <<args, overlap>>

CallExclClassify ==
    /\ fn = "none"
    /\ AllSome
    /\ ~inclusive
    /\ fn' = "excl_classify"
    /\ result' = excl_classify(Unwrap(a_start), Unwrap(a_end), Unwrap(b_start), Unwrap(b_end))
    /\ UNCHANGED <<args, overlap>>

CallInclClassify ==
    /\ fn = "none"
    /\ AllSome
    /\ inclusive
    /\ fn' = "incl_classify"
    /\ result' = incl_classify(Unwrap(a_start), Unwrap(a_end), Unwrap(b_start), Unwrap(b_end))
    /\ UNCHANGED <<args, overlap>>

\* RangeOverlap::has_overlap on the value a classifier returned.
CallHasOverlap ==
    /\ fn \in {"classify_any", "excl_classify", "incl_classify"}
    /\ overlap = NoneOpt
    /\ overlap' = Some(has_overlap(result))
    /\ UNCHANGED <<args, fn, result>>

CallHasExclOverlap ==
    /\ fn = "none"
    /\ AllSome
    /\ ~inclusive
    /\ fn' = "has_excl_overlap"
    /\ overlap' = Some(has_excl_overlap(Unwrap(a_start), Unwrap(a_end), Unwrap(b_start), Unwrap(b_end)))
    /\ UNCHANGED <<args, result>>

CallHasInclOverlap ==
    /\ fn = "none"
    /\ AllSome
    /\ inclusive
    /\ fn' = "has_incl_overlap"
    /\ overlap' = Some(has_incl_overlap(Unwrap(a_start), Unwrap(a_end), Unwrap(b_start), Unwrap(b_end)))
    /\ UNCHANGED <<args, result>>

CallHasOpenExclOverlap ==
    /\ fn = "none"
    /\ ~inclusive
    /\ fn' = "has_open_excl_overlap"
    /\ overlap' = Some(has_open_excl_overlap(a_start, a_end, b_start, b_end))
    /\ UNCHANGED <<args, result>>

CallHasOpenInclOverlap ==
    /\ fn = "none"
    /\ inclusive
    /\ fn' = "has_open_incl_overlap"
    /\ overlap' = Some(has_open_incl_overlap(a_start, a_end, b_start, b_end))
    /\ UNCHANGED <<args, result>>

Next ==
    \/ CallClassifyAny
    \/ CallExclClassify
    \/ CallInclClassify
    \/ CallHasOverlap
    \/ CallHasExclOverlap
    \/ CallHasInclOverlap
    \/ CallHasOpenExclOverlap
    \/ CallHasOpenInclOverlap

Spec == Init /\ [][Next]_vars

----------------------------------------------------------------------------
\* Vocabulary of the properties.

\* A range with both ends present has start <= end.
WellFormedA == (IsSome(a_start) /\ IsSome(a_end)) => Unwrap(a_start) <= Unwrap(a_end)

WellFormedB == (IsSome(b_start) /\ IsSome(b_end)) => Unwrap(b_start) <= Unwrap(b_end)

WellFormed == WellFormedA /\ WellFormedB

\* classify_any has returned for the arguments of the state.
Classified == fn = "classify_any"

\* What classify_any returns with the two ranges exchanged.
Swapped == classify_any(b_start, b_end, a_start, a_end, inclusive)

\* What classify_any returns in the other inclusivity mode.
OtherMode == classify_any(a_start, a_end, b_start, b_end, ~inclusive)

ExclResult == IF inclusive THEN OtherMode ELSE result

InclResult == IF inclusive THEN result ELSE OtherMode

\* The values a range can hold: one below and one above every end point,
\* so that an absent bound reaches further than any present one.
Point == (0 - 1)..(MaxVal + 1)

\* v is a value of the range s..e: an absent start is below every value, an
\* absent end above every value, the end value belongs only when incl.
InRange(v, s, e, incl) ==
    /\ IsSome(s) => Unwrap(s) <= v
    /\ IsSome(e) => IF incl THEN v <= Unwrap(e) ELSE v < Unwrap(e)

InA(v) == InRange(v, a_start, a_end, inclusive)

InB(v) == InRange(v, b_start, b_end, inclusive)

SharedValue == \E v \in Point : InA(v) /\ InB(v)

SameEndPoints == a_start = b_start /\ a_end = b_end

\* A present end of one range equals a present start of the other.
Touch ==
    \/ IsSome(a_end) /\ IsSome(b_start) /\ Unwrap(a_end) = Unwrap(b_start)
    \/ IsSome(a_start) /\ IsSome(b_end) /\ Unwrap(a_start) = Unwrap(b_end)

\* A ends exactly where B starts, A reaching below B and B above A's end.
TouchEnd ==
    /\ IsSome(a_end) /\ IsSome(b_start) /\ Unwrap(a_end) = Unwrap(b_start)
    /\ IsSome(a_start) => Unwrap(a_start) < Unwrap(b_start)
    /\ IsSome(b_end) => Unwrap(b_end) > Unwrap(b_start)

\* The mirror image: A starts exactly where B ends.
TouchStart ==
    /\ IsSome(a_start) /\ IsSome(b_end) /\ Unwrap(a_start) = Unwrap(b_end)
    /\ IsSome(b_start) => Unwrap(b_start) < Unwrap(b_end)
    /\ IsSome(a_end) => Unwrap(a_end) > Unwrap(a_start)

OnlyEnds == ~IsSome(a_start) /\ IsSome(a_end) /\ ~IsSome(b_start) /\ IsSome(b_end)

OnlyStarts == IsSome(a_start) /\ ~IsSome(a_end) /\ IsSome(b_start) /\ ~IsSome(b_end)

----------------------------------------------------------------------------
\* C1: for well-formed ranges and both modes, classify_any(A, B) is
\* AContainsB exactly when classify_any(B, A) is AInsideB.
C1_ContainsInsideDuality ==
    (Classified /\ WellFormed) =>
        (result = "AContainsB" <=> Swapped = "AInsideB")

\* C2: for well-formed ranges and both modes, classify_any(A, B) is
\* AEndsInB exactly when classify_any(B, A) is AStartsInB.
C2_EndsStartsDuality ==
    (Classified /\ WellFormed) =>
        (result = "AEndsInB" <=> Swapped = "AStartsInB")

\* classify_any answered AEndsInB for a half-open A and its swap AStartsInB.
C2_Witness ==
    /\ Classified /\ WellFormed
    /\ ~IsSome(a_start) /\ IsSome(b_end)
    /\ result = "AEndsInB"
    /\ Swapped = "AStartsInB"

\* C3: for well-formed ranges and both modes, classify_any(A, B) is None
\* exactly when classify_any(B, A) is None, and the open overlap predicates
\* return the same boolean for (A, B) and (B, A).
C3_NoneSymmetric ==
    /\ (Classified /\ WellFormed) => (result = "None" <=> Swapped = "None")
    /\ (fn \in {"has_open_excl_overlap", "has_open_incl_overlap"} /\ WellFormed) =>
           overlap = Some(has_overlap(Swapped))

\* C4: for finite a_start <= a_end and b_start <= b_end, has_incl_overlap
\* is true exactly when the two ranges, ends included, share a value.
C4_InclOverlapIsSharedValue ==
    (fn = "has_incl_overlap" /\ WellFormed) =>
        (overlap = Some(TRUE) <=> SharedValue)

\* C5: for finite a_start <= a_end and b_start <= b_end, has_excl_overlap
\* is true exactly when the two ranges, ends excluded, share a value.
C5_ExclOverlapIsSharedValue ==
    (fn = "has_excl_overlap" /\ WellFormed) =>
        (overlap = Some(TRUE) <=> SharedValue)

\* C6: for every presence pattern and both modes, classify_any returns
\* AEqualsB exactly when the starts are both absent or both present and
\* equal, and so are the ends.
C6_EqualsIffSameEndPoints ==
    Classified => (result = "AEqualsB" <=> SameEndPoints)

\* classify_any answered AEqualsB for two ranges with the same present
\* start and no end.
C6_Witness ==
    /\ Classified
    /\ result = "AEqualsB"
    /\ SameEndPoints
    /\ IsSome(a_start) /\ ~IsSome(a_end)

\* C7: for well-formed ranges, an exclusive result other than None is also
\* the inclusive result, and the two modes differ only when a present end
\* of one range equals a present start of the other, the exclusive result
\* being None there.
C7_InclusivityMonotone ==
    (Classified /\ WellFormed) =>
        /\ ExclResult # "None" => InclResult = ExclResult
        /\ ExclResult # InclResult => (Touch /\ ExclResult = "None")

\* The two modes disagree on a pair of touching ranges.
C7_Witness ==
    /\ Classified /\ WellFormed
    /\ Touch
    /\ ExclResult = "None"
    /\ InclResult = "AStartsInB"

\* C8: when A ends exactly at B's start (A reaching below, B reaching
\* above), classify_any returns None in exclusive and AEndsInB in inclusive
\* mode; when A starts exactly at B's end it returns None in exclusive and
\* AStartsInB in inclusive mode, for closed and open shapes alike.
C8_BoundaryTouch ==
    fn \in {"classify_any", "excl_classify", "incl_classify"} =>
        /\ TouchEnd => result = (IF inclusive THEN "AEndsInB" ELSE "None")
        /\ TouchStart => result = (IF inclusive THEN "AStartsInB" ELSE "None")

\* An inclusive call on an open A that ends exactly at B's start.
C8_Witness ==
    /\ Classified
    /\ TouchEnd
    /\ ~IsSome(a_start) /\ ~IsSome(b_end)
    /\ inclusive
    /\ result = "AEndsInB"

\* C9: for well-formed ranges, AInsideB means every value of A is a value
\* of B and the end points differ, and AContainsB means every value of B is
\* a value of A.
C9_ContainmentSound ==
    (Classified /\ WellFormed) =>
        /\ result = "AInsideB" =>
               /\ \A v \in Point : InA(v) => InB(v)
               /\ ~SameEndPoints
        /\ result = "AContainsB" =>
               \A v \in Point : InB(v) => InA(v)

\* classify_any answered AInsideB for a closed, non-empty A and a B
\* without an end.
C9_Witness ==
    /\ Classified /\ WellFormed
    /\ result = "AInsideB"
    /\ IsSome(a_start) /\ IsSome(a_end) /\ IsSome(b_start) /\ ~IsSome(b_end)
    /\ \E v \in Point : InA(v)

\* C10: with no starts and two present ends the result is AEqualsB,
\* AInsideB or AContainsB as a_end is equal to, below or above b_end; with
\* two present starts and no ends it is AEqualsB, AContainsB or AInsideB as
\* a_start is equal to, below or above b_start; in both modes.
C10_SameSideOpen ==
    Classified =>
        /\ OnlyEnds =>
               result = (IF Unwrap(a_end) = Unwrap(b_end) THEN "AEqualsB"
                         ELSE IF Unwrap(a_end) < Unwrap(b_end) THEN "AInsideB"
                         ELSE "AContainsB")
        /\ OnlyStarts =>
               result = (IF Unwrap(a_start) = Unwrap(b_start) THEN "AEqualsB"
                         ELSE IF Unwrap(a_start) < Unwrap(b_start) THEN "AContainsB"
                         ELSE "AInsideB")

\* classify_any answered AInsideB for two ranges without a start, A ending
\* first.
C10_Witness ==
    /\ Classified
    /\ OnlyEnds
    /\ Unwrap(a_end) < Unwrap(b_end)
    /\ result = "AInsideB"

----------------------------------------------------------------------------
\* Vocabulary of the properties on non-degenerate ranges.

\* A range with both ends present has start < end.
NonDegenerateA == (IsSome(a_start) /\ IsSome(a_end)) => Unwrap(a_start) < Unwrap(a_end)

NonDegenerateB == (IsSome(b_start) /\ IsSome(b_end)) => Unwrap(b_start) < Unwrap(b_end)

NonDegenerate == NonDegenerateA /\ NonDegenerateB

\* A starts strictly before B.
StartsBefore ==
    \/ ~IsSome(a_start) /\ IsSome(b_start)
    \/ IsSome(a_start) /\ IsSome(b_start) /\ Unwrap(a_start) < Unwrap(b_start)

\* A starts no later than B.
StartsNoLater ==
    \/ ~IsSome(a_start)
    \/ IsSome(a_start) /\ IsSome(b_start) /\ Unwrap(a_start) <= Unwrap(b_start)

\* A's end is present and strictly below B's end.
EndsBelow == IsSome(a_end) /\ (IsSome(b_end) => Unwrap(a_end) < Unwrap(b_end))

\* A's end reaches into B: beyond B's start, or onto it in inclusive mode.
EndReachesB ==
    /\ IsSome(a_end) /\ IsSome(b_start)
    /\ IF inclusive THEN Unwrap(a_end) >= Unwrap(b_start)
                    ELSE Unwrap(a_end) > Unwrap(b_start)

EqualEnds == IsSome(a_end) /\ IsSome(b_end) /\ Unwrap(a_end) = Unwrap(b_end)

\* One value below and one value above every present end point.
MinSentinel == 0 - 1

MaxSentinel == MaxVal + 1

StartOrMin(o) == IF IsSome(o) THEN Unwrap(o) ELSE MinSentinel

EndOrMax(o) == IF IsSome(o) THEN Unwrap(o) ELSE MaxSentinel

\* The closed classifier of the state's mode on the sentinel end points.
SentinelResult ==
    IF inclusive
    THEN incl_classify(StartOrMin(a_start), EndOrMax(a_end), StartOrMin(b_start), EndOrMax(b_end))
    ELSE excl_classify(StartOrMin(a_start), EndOrMax(a_end), StartOrMin(b_start), EndOrMax(b_end))

Greater(x, y) == IF x >= y THEN x ELSE y

Lesser(x, y) == IF x <= y THEN x ELSE y

\* The greater start lies at or beyond the lesser end (beyond it, in
\* inclusive mode); an absent bound is further out than any present one.
Disjoint ==
    LET start == Greater(StartOrMin(a_start), StartOrMin(b_start))
        end == Lesser(EndOrMax(a_end), EndOrMax(b_end))
    IN  IF inclusive THEN start > end ELSE start >= end

dual(r) ==
    CASE r = "AContainsB" -> "AInsideB"
      [] r = "AInsideB" -> "AContainsB"
      [] r = "AEndsInB" -> "AStartsInB"
      [] r = "AStartsInB" -> "AEndsInB"
      [] OTHER -> r

----------------------------------------------------------------------------
\* C11: in both modes, with a_start absent and b_start present classify_any
\* returns only AContainsB, AEndsInB or None; with a_end absent and b_end
\* present it returns only AContainsB, AStartsInB or None.
C11_UnboundedNeverInside ==
    Classified =>
        /\ (~IsSome(a_start) /\ IsSome(b_start)) =>
               result \in {"AContainsB", "AEndsInB", "None"}
        /\ (~IsSome(a_end) /\ IsSome(b_end)) =>
               result \in {"AContainsB", "AStartsInB", "None"}

\* classify_any answered AStartsInB for an A without end against a closed B.
C11_Witness ==
    /\ Classified
    /\ IsSome(a_start) /\ ~IsSome(a_end) /\ IsSome(b_start) /\ IsSome(b_end)
    /\ result = "AStartsInB"

\* C12 as stated: AEndsInB only when A starts strictly before B, A's end is
\* present, strictly below B's end and reaches B's start (strictly, in
\* exclusive mode); and equal ends with A starting no later than B are
\* always AContainsB.
C12_EndsInBStrict_Original ==
    Classified =>
        /\ result = "AEndsInB" => (StartsBefore /\ EndsBelow /\ EndReachesB)
        /\ (WellFormed /\ EqualEnds /\ StartsNoLater) => result = "AContainsB"

\* C12 as amended: AEndsInB only when A starts strictly before B, A's end
\* is present, strictly below B's end and reaches B's start (strictly, in
\* exclusive mode); for well-formed ranges, equal ends with A starting no
\* later than B are never AEndsInB: they are AEqualsB when the starts are
\* identical too, None in exclusive mode when a_start is absent and
\* b_start = b_end, and AContainsB otherwise.
C12_EndsInBStrict ==
    Classified =>
        /\ result = "AEndsInB" => (StartsBefore /\ EndsBelow /\ EndReachesB)
        /\ (WellFormed /\ EqualEnds /\ StartsNoLater) =>
               result = (IF a_start = b_start THEN "AEqualsB"
                         ELSE IF ~inclusive /\ ~IsSome(a_start) /\ b_start = b_end THEN "None"
                         ELSE "AContainsB")

\* An inclusive call answered AContainsB for an A without start whose end
\* equals the end of a closed B.
C12_Witness ==
    /\ Classified /\ WellFormed
    /\ EqualEnds
    /\ ~IsSome(a_start) /\ IsSome(b_start)
    /\ inclusive
    /\ result = "AContainsB"

\* C13: on non-degenerate ranges, for every presence pattern and both
\* modes, classify_any returns what the closed classifier of the same mode
\* returns once every absent start is replaced by a value below, and every
\* absent end by a value above, all present values.
C13_SentinelAgreement ==
    (Classified /\ NonDegenerate) => result = SentinelResult

\* classify_any answered AEndsInB for an A without start against a B
\* without end.
C13_Witness ==
    /\ Classified /\ NonDegenerate
    /\ ~IsSome(a_start) /\ IsSome(a_end) /\ IsSome(b_start) /\ ~IsSome(b_end)
    /\ result = "AEndsInB"
    /\ SentinelResult = "AEndsInB"

\* C14: on non-degenerate ranges, for every presence pattern and both
\* modes, classify_any returns None exactly when the two ranges share no
\* value, that is when the greater start is at or beyond the lesser end
\* (strictly beyond it in inclusive mode).
C14_NoneExact ==
    (Classified /\ NonDegenerate) =>
        /\ result = "None" <=> ~SharedValue
        /\ result = "None" <=> Disjoint

\* An exclusive call answered None for an A without end that starts on the
\* end of a closed B.
C14_Witness ==
    /\ Classified /\ NonDegenerate
    /\ ~inclusive
    /\ IsSome(a_start) /\ ~IsSome(a_end) /\ IsSome(b_start) /\ IsSome(b_end)
    /\ Unwrap(a_start) = Unwrap(b_end)
    /\ result = "None"
    /\ ~SharedValue

\* C15: on non-degenerate ranges, for every presence pattern and both
\* modes, classify_any(B, A) is the dual of classify_any(A, B): AContainsB
\* and AInsideB exchanged, AEndsInB and AStartsInB exchanged, AEqualsB and
\* None kept.
C15_SwapDuality ==
    (Classified /\ NonDegenerate) => Swapped = dual(result)

\* classify_any answered AInsideB for a closed A against a B without start,
\* and AContainsB for the swap.
C15_Witness ==
    /\ Classified /\ NonDegenerate
    /\ IsSome(a_start) /\ IsSome(a_end) /\ ~IsSome(b_start) /\ IsSome(b_end)
    /\ result = "AInsideB"
    /\ Swapped = "AContainsB"

====
